---- MODULE Spec2Model ----
(***************************************************************************)
(* Two Streamlit dashboards.                                               *)
(*   Day 1/app.py               student marks: totals, averages, class and *)
(*                              subject means of an uploaded CSV table.    *)
(*   Day 2/view_transactions.py transaction viewer: cached load from a     *)
(*                              SQLite store, date/amount filter, metrics. *)
(* A pandas table is a sequence of rows, a row a sequence of cells.        *)
(* Positions are 1-based here and 0-based in the source: iloc[:, 3:7] is   *)
(* the cells ScoreStart+1 .. AvgEnd of a row.                              *)
(***************************************************************************)
EXTENDS Integers, Sequences, FiniteSets, TLC

VARIABLES
    \* ---- Day 1/app.py
    pc1,               \* "nofile" | "uploaded" | "calculated"
    uploaded_file,     \* the table read from the uploaded CSV
    df1,               \* df of app.py: the table as displayed
    class_averages,    \* class -> means of the columns 3:7
    subject_averages,  \* means of the columns 3:7 over all rows
    \* ---- Day 2/view_transactions.py
    store,             \* transactions.db
    cache,             \* the st.cache_data entry of load_data
    session,           \* number of the browser session now running the script
    changedIn,         \* session during which the store last changed
    ranBody,           \* whether the last script run executed load_data's body
    pc,                \* "idle" | "nodata" | "shown"
    df,                \* df = load_data()
    diag,              \* st.error shown by load_data
    widgets,           \* sidebar widget values
    filtered_df,
    total_credit,
    total_debit,
    net_flow

vars1 == <<pc1, uploaded_file, df1, class_averages, subject_averages>>
vars2 == <<store, cache, session, changedIn, ranBody, pc, df, diag, widgets,
           filtered_df, total_credit, total_debit, net_flow>>
vars == <<vars1, vars2>>

----------------------------------------------------------------------------
(* Bounds of the model *)

\* Rows of an uploaded marks table, and of the store the viewer filters.
MaxRows == 2
\* Score columns beyond the four of the Average window.
MaxExtraCols == 1
\* Rows of the store in the loader's specification.
MaxStoreRows == 1
\* Browser sessions of one server process.
MaxSessions == 3

----------------------------------------------------------------------------
(* Helpers *)

RECURSIVE SumSeq(_)
SumSeq(s) == IF s = <<>> THEN 0 ELSE Head(s) + SumSeq(Tail(s))

\* The sequences over S of length 0 .. n.
SeqsUpTo(S, n) == UNION {[1..k -> S] : k \in 0..n}

\* Column j of a table: the sequence of the rows' j-th cells.
Column(t, j) == [r \in 1..Len(t) |-> t[r][j]]

\* t restricted to the rows whose index is in K, in order, from row r on.
RECURSIVE SelectRows(_, _, _)
SelectRows(t, K, r) ==
    IF r > Len(t) THEN <<>>
    ELSE (IF r \in K THEN <<t[r]>> ELSE <<>>) \o SelectRows(t, K, r + 1)

----------------------------------------------------------------------------
(* Day 1/app.py *)

\* A missing cell of the CSV (NaN after pd.read_csv).
NA == -1
\* A missing Class cell.
NoClass == "NaN"

ScoreStart == 3
AvgEnd == 7

ScoreValues == {10, 20}
CellValues == ScoreValues \cup {NA}
ClassValues == {"A", "B", NoClass}

\* The score blocks of n cells in which at most one cell is not 10.
ScoreRows(n) ==
    {s \in [1..n -> CellValues] : Cardinality({i \in 1..n : s[i] # 10}) <= 1}

\* A CSV row: two identifier columns, the Class column, n score columns.
StudentRows(n) == {<<"id", "name", c>> \o s : c \in ClassValues, s \in ScoreRows(n)}

ScoreColCounts == (AvgEnd - ScoreStart)..(AvgEnd - ScoreStart + MaxExtraCols)

\* The uploaded tables: header (the column count) and rows.
StudentTables ==
    UNION {[ncols : {ScoreStart + n}, rows : SeqsUpTo(StudentRows(n), MaxRows)]
              : n \in ScoreColCounts}

\* pandas sum: missing cells are skipped (skipna=True), the sum of nothing is 0.
SkipNA(cells) == SelectSeq(cells, LAMBDA x : x # NA)
PandasSum(cells) == SumSeq(SkipNA(cells))

\* pandas mean: missing cells are skipped; a mean is the fraction num/den and
\* the mean of nothing is NaN, the fraction 0/0.
PandasMean(cells) == [num |-> SumSeq(SkipNA(cells)), den |-> Len(SkipNA(cells))]
IsNaN(m) == m.den = 0

\* df.iloc[:, a:b] of one row (b capped at the row's length, as a slice is).
Iloc(row, a, b) == SubSeq(row, a + 1, IF b < Len(row) THEN b ELSE Len(row))

\* Faulty variant of WithTotal: the total taken over the Average window 3:7 only.
WithTotal_AverageWindow(t) ==
    [r \in 1..Len(t) |-> Append(t[r], PandasSum(Iloc(t[r], ScoreStart, AvgEnd)))]

\* df["Total Marks"] = df.iloc[:, 3:].sum(axis=1)
WithTotal(t) == [r \in 1..Len(t) |-> Append(t[r], PandasSum(Iloc(t[r], ScoreStart, Len(t[r]))))]

\* df["Average Marks"] = df.iloc[:, 3:7].mean(axis=1), on the table that
\* already holds Total Marks.
WithAverage(t) == [r \in 1..Len(t) |-> Append(t[r], PandasMean(Iloc(t[r], ScoreStart, AvgEnd)))]

ClassCol == 3

\* The groups of groupby("Class"): rows whose key is missing are dropped
\* (dropna=True is the default).
GroupKeys(t) == {t[r][ClassCol] : r \in 1..Len(t)} \ {NoClass}
GroupRows(t, c) == SelectRows(t, {r \in 1..Len(t) : t[r][ClassCol] = c}, 1)

\* df.groupby("Class")[df.columns[3:7]].mean()
ClassAverages(t) ==
    [c \in GroupKeys(t) |->
        [j \in 1..(AvgEnd - ScoreStart) |-> PandasMean(Column(GroupRows(t, c), ScoreStart + j))]]

\* df.iloc[:, 3:7].mean()
SubjectAverages(t) ==
    [j \in 1..(AvgEnd - ScoreStart) |-> PandasMean(Column(t, ScoreStart + j))]

Init1 ==
    /\ pc1 = "nofile"
    /\ uploaded_file = [ncols |-> 0, rows |-> <<>>]
    /\ df1 = <<>>
    /\ class_averages = <<>>
    /\ subject_averages = <<>>

\* st.file_uploader returns a file; df = pd.read_csv(uploaded_file).
Upload ==
    /\ pc1 = "nofile"
    /\ \E f \in StudentTables :
        /\ uploaded_file' = f
        /\ df1' = f.rows
    /\ pc1' = "uploaded"
    /\ UNCHANGED <<class_averages, subject_averages, vars2>>

\* The button "Calculate Totals & Averages".
Calculate ==
    /\ pc1 \in {"uploaded", "calculated"}
    /\ LET t == WithAverage(WithTotal(uploaded_file.rows)) IN
        /\ df1' = t
        /\ class_averages' = ClassAverages(t)
        /\ subject_averages' = SubjectAverages(t)
    /\ pc1' = "calculated"
    /\ UNCHANGED <<uploaded_file, vars2>>

\* The user removes the file from the uploader.
RemoveFile ==
    /\ pc1 # "nofile"
    /\ pc1' = "nofile"
    /\ uploaded_file' = [ncols |-> 0, rows |-> <<>>]
    /\ df1' = <<>>
    /\ class_averages' = <<>>
    /\ subject_averages' = <<>>
    /\ UNCHANGED vars2

----------------------------------------------------------------------------
(* Claims about Day 1/app.py *)

InputRows == uploaded_file.rows
NCols == uploaded_file.ncols
TotalCol == NCols + 1
AverageCol == NCols + 2
\* Every score cell of the uploaded table is a number.
AllNumeric == \A r \in 1..Len(InputRows) : \A j \in (ScoreStart + 1)..NCols : InputRows[r][j] # NA
\* Every row of the uploaded table has a Class value.
AllClassed == \A r \in 1..Len(InputRows) : InputRows[r][ClassCol] # NoClass
\* The indices of the input rows of class c.
RowsOfClass(c) == {r \in 1..Len(InputRows) : InputRows[r][ClassCol] = c}
RECURSIVE SumOver(_, _)
SumOver(S, f) == IF S = {} THEN 0 ELSE LET x == CHOOSE y \in S : TRUE IN f[x] + SumOver(S \ {x}, f)
RECURSIVE ProdOver(_, _)
ProdOver(S, f) == IF S = {} THEN 1 ELSE LET x == CHOOSE y \in S : TRUE IN f[x] * ProdOver(S \ {x}, f)

\* C3: for a table of 3 leading columns and N >= 4 numeric score columns the
\* calculation keeps the input rows in order and appends Total = the sum of
\* all N input scores and Average = the mean of the first 4 input scores; the
\* appended Total enters neither Total, Average, class_averages nor
\* subject_averages (each is a value of the input's score columns alone).
C3_TotalsAndAverages ==
    (pc1 = "calculated" /\ AllNumeric) =>
        /\ Len(df1) = Len(InputRows)
        /\ \A r \in 1..Len(InputRows) :
            /\ Len(df1[r]) = NCols + 2
            /\ SubSeq(df1[r], 1, NCols) = InputRows[r]
            /\ df1[r][TotalCol] = SumSeq(SubSeq(InputRows[r], ScoreStart + 1, NCols))
            /\ df1[r][AverageCol].den = 4
            /\ df1[r][AverageCol].num =
                 InputRows[r][4] + InputRows[r][5] + InputRows[r][6] + InputRows[r][7]
        /\ \A j \in 1..4 :
            /\ Len(subject_averages) = 4
            /\ subject_averages[j].num =
                 SumOver(1..Len(InputRows), [r \in 1..Len(InputRows) |-> InputRows[r][ScoreStart + j]])
            /\ subject_averages[j].den = Len(InputRows)
            /\ \A c \in DOMAIN class_averages :
                /\ class_averages[c][j].num =
                     SumOver(RowsOfClass(c), [r \in 1..Len(InputRows) |-> InputRows[r][ScoreStart + j]])
                /\ class_averages[c][j].den = Cardinality(RowsOfClass(c))

\* C3 witness: a calculated numeric table of two different rows with a fifth
\* score column, so that Total and the sum of the Average window differ.
C3_Witness ==
    /\ pc1 = "calculated"
    /\ AllNumeric
    /\ NCols = 8
    /\ Len(InputRows) = 2
    /\ InputRows[1] # InputRows[2]
    /\ InputRows[1][8] = 20
    /\ df1[1][TotalCol] = 60
    /\ df1[1][AverageCol] = [num |-> 40, den |-> 4]

\* C4: for a non-empty table class_averages has one row per distinct Class
\* value of the table and, for each column of the Average range, the sum over
\* the classes of group size * class average equals row count * subject
\* average.  Fractions are compared after multiplying by every denominator.
C4_WeightedAverageLaw ==
    (pc1 = "calculated" /\ Len(InputRows) > 0 /\ AllNumeric) =>
        /\ DOMAIN class_averages = {InputRows[r][ClassCol] : r \in 1..Len(InputRows)} \ {NoClass}
        /\ \A j \in 1..4 :
            LET K == DOMAIN class_averages
                D == ProdOver(K, [c \in K |-> class_averages[c][j].den])
            IN  /\ ~IsNaN(subject_averages[j])
                /\ \A c \in K : ~IsNaN(class_averages[c][j])
                /\ subject_averages[j].den *
                     SumOver(K, [c \in K |-> Cardinality(RowsOfClass(c)) * class_averages[c][j].num
                                              * (D \div class_averages[c][j].den)])
                   = Len(InputRows) * subject_averages[j].num * D

\* The weighted-average law on the tables whose rows all have a Class value.
C4_LawWhenAllClassed == AllClassed => C4_WeightedAverageLaw

\* C9: a missing score cell is never silently counted as 0 or skipped: the
\* Total and Average of its row and the subject average of its column are
\* marked missing (the calculation has no failing exit).
C9_MissingCellNeverSilent ==
    (pc1 = "calculated") =>
        \A r \in 1..Len(InputRows) : \A j \in (ScoreStart + 1)..NCols :
            (InputRows[r][j] = NA) =>
                /\ df1[r][TotalCol] = NA
                /\ ((j <= AvgEnd) => IsNaN(df1[r][AverageCol]))
                /\ ((j <= AvgEnd) => IsNaN(subject_averages[j - ScoreStart]))

\* C10: for an empty table every output is empty; no output holds a NaN.
C10_EmptyTableNoNaN ==
    (pc1 = "calculated" /\ InputRows = <<>>) =>
        /\ df1 = <<>>
        /\ DOMAIN class_averages = {}
        /\ \A j \in DOMAIN subject_averages : ~IsNaN(subject_averages[j])

----------------------------------------------------------------------------
(* Day 2/view_transactions.py *)

\* A NULL cell of the transactions table, and a text cell that parses
\* neither as a date nor as a number.
NullCell == -1
BadText == -2
\* pd.NaT, the missing timestamp.
NaT == 0

\* A timestamp is day * TicksPerDay + time of day; .dt.date drops the time.
TicksPerDay == 2
DateOf(ts) == IF ts = NaT THEN NaT ELSE ts \div TicksPerDay

RawRow(d, deb, cre, bal) ==
    [transaction_date |-> d, description |-> "txn", debit_amount |-> deb,
     credit_amount |-> cre, balance |-> bal]

\* Rows of the stores of the loader's specification: dates valid, NULL or
\* unparseable; amounts numeric or not.
LoadRawRows ==
    {RawRow(d, a[1], a[2], a[3]) :
        d \in {2, NullCell, BadText},
        a \in {<<1000, 0, 1000>>, <<BadText, NullCell, BadText>>}}

\* Rows of the stores of the viewer's specification: day 1 morning, day 2
\* evening or no date; a debit of 1000, a credit of 1000 or a credit of 2000.
ViewRawRows ==
    {RawRow(d, a[1], a[2], 0) :
        d \in {1 * TicksPerDay, 2 * TicksPerDay + 1, NullCell},
        a \in {<<1000, 0>>, <<0, 1000>>, <<0, 2000>>}}

AbsentStore == [state |-> "absent", rows |-> <<>>]
\* A file that is no database, or holds no transactions table.
CorruptStore == [state |-> "corrupt", rows |-> <<>>]
StoresOf(R, n) == {AbsentStore, CorruptStore} \cup [state : {"ok"}, rows : SeqsUpTo(R, n)]
LoadStores == StoresOf(LoadRawRows, MaxStoreRows)
ViewStores == StoresOf(ViewRawRows, MaxRows)

\* ORDER BY transaction_date DESC: NULL sorts below every value; rows of
\* equal date keep their rowid order.
RECURSIVE InsertDesc(_, _)
InsertDesc(row, sorted) ==
    IF sorted = <<>> THEN <<row>>
    ELSE IF row.transaction_date > Head(sorted).transaction_date
         THEN <<row>> \o sorted
         ELSE <<Head(sorted)>> \o InsertDesc(row, Tail(sorted))
RECURSIVE OrderByDateDesc(_)
OrderByDateDesc(rows) ==
    IF rows = <<>> THEN <<>>
    ELSE InsertDesc(rows[Len(rows)], OrderByDateDesc(SubSeq(rows, 1, Len(rows) - 1)))

\* pd.to_datetime of one cell: NULL becomes NaT (unparseable text raises).
ToDatetime(x) == IF x = NullCell THEN NaT ELSE x
\* pd.to_numeric(errors='coerce').fillna(0) of one cell.
ToNumeric(x) == IF x \in {NullCell, BadText} THEN 0 ELSE x

ConvertRow(row) ==
    [transaction_date |-> ToDatetime(row.transaction_date),
     description |-> row.description,
     debit_amount |-> ToNumeric(row.debit_amount),
     credit_amount |-> ToNumeric(row.credit_amount),
     balance |-> ToNumeric(row.balance)]

\* The try block of load_data: connect, query, convert.  raised tells whether
\* a statement of the block raised (no database or table to read, a date
\* that does not parse); to_numeric with errors='coerce' never does.
TryBlock(st) ==
    IF st.state = "corrupt" THEN [table |-> <<>>, raised |-> TRUE]
    ELSE LET q == OrderByDateDesc(st.rows) IN
         IF \E r \in 1..Len(q) : q[r].transaction_date = BadText
         THEN [table |-> <<>>, raised |-> TRUE]
         ELSE [table |-> [r \in 1..Len(q) |-> ConvertRow(q[r])], raised |-> FALSE]

\* Faulty variant of load_data: an except clause that lets the failure of the try
\* block leave the function.
load_data_Uncaught(st) ==
    IF st.state = "absent" THEN [table |-> <<>>, diag |-> FALSE, raised |-> FALSE]
    ELSE LET b == TryBlock(st) IN [table |-> b.table, diag |-> FALSE, raised |-> b.raised]

\* The body of load_data: the table returned, whether st.error was called,
\* and whether an exception left the function (except Exception: none does).
load_data(st) ==
    IF st.state = "absent" THEN [table |-> <<>>, diag |-> FALSE, raised |-> FALSE]
    ELSE LET b == TryBlock(st) IN
         IF b.raised THEN [table |-> <<>>, diag |-> TRUE, raised |-> FALSE]
         ELSE [table |-> b.table, diag |-> FALSE, raised |-> FALSE]

\* @st.cache_data: the entry, once filled, answers every later call, of any
\* session; nothing in the script expires or clears it.
CachedLoad ==
    IF cache.full THEN [table |-> cache.table, diag |-> cache.diag, raised |-> FALSE]
    ELSE load_data(store)

\* min() and max() of the date column skip NaT; both are NaT when no row has
\* a date.
Dated(t) == {r \in 1..Len(t) : t[r].transaction_date # NaT}
min_date(t) ==
    IF Dated(t) = {} THEN NaT
    ELSE DateOf(CHOOSE x \in {t[r].transaction_date : r \in Dated(t)} :
                    \A r \in Dated(t) : x <= t[r].transaction_date)
max_date(t) ==
    IF Dated(t) = {} THEN NaT
    ELSE DateOf(CHOOSE x \in {t[r].transaction_date : r \in Dated(t)} :
                    \A r \in Dated(t) : x >= t[r].transaction_date)

ToAmountDefault == 1000
AmountInputs == {0, 1000, 2000}
AmountTypes == {"All", "Credit", "Debit"}
Conditions == {"Any Amount", "Greater Than", "Less Than", "Between"}

\* The widget values of a session's first run.
DefaultWidgets(t) ==
    [start_date |-> min_date(t), end_date |-> max_date(t), amount_type |-> "All",
     filter_condition |-> "Any Amount", amount1 |-> 0, amount2 |-> 0]

\* The date filter: a comparison with NaT on either side is False.
InDateRange(row, w) ==
    /\ row.transaction_date # NaT
    /\ w.start_date # NaT
    /\ w.end_date # NaT
    /\ DateOf(row.transaction_date) >= w.start_date
    /\ DateOf(row.transaction_date) <= w.end_date

DateFilter(t, w) == SelectSeq(t, LAMBDA row : InDateRange(row, w))

target_column(w) ==
    IF w.amount_type = "Credit" THEN "credit_amount"
    ELSE IF w.amount_type = "Debit" THEN "debit_amount"
    ELSE ""

\* Faulty variant of BetweenFilter: the amounts used as entered, never swapped.
BetweenFilter_AsEntered(t, col, a1, a2) ==
    SelectSeq(t, LAMBDA row : a1 <= row[col] /\ row[col] <= a2)

\* The Between branch: the amounts are swapped when entered in the wrong order.
BetweenFilter(t, col, a1, a2) ==
    LET lo == IF a1 > a2 THEN a2 ELSE a1
        hi == IF a1 > a2 THEN a1 ELSE a2
    IN  SelectSeq(t, LAMBDA row : lo <= row[col] /\ row[col] <= hi)

\* Faulty variant of GreaterThanFilter: >= for >.
GreaterThanFilter_Inclusive(t, col, a1) == SelectSeq(t, LAMBDA row : row[col] >= a1)

\* filtered_df[filtered_df[target_column] > amount1], and < amount1
GreaterThanFilter(t, col, a1) == SelectSeq(t, LAMBDA row : row[col] > a1)
LessThanFilter(t, col, a1) == SelectSeq(t, LAMBDA row : row[col] < a1)

AmountFilter(t, w) ==
    LET col == target_column(w) IN
    IF col # "" /\ w.filter_condition # "Any Amount"
    THEN IF w.filter_condition = "Greater Than" THEN GreaterThanFilter(t, col, w.amount1)
         ELSE IF w.filter_condition = "Less Than" THEN LessThanFilter(t, col, w.amount1)
         ELSE IF w.filter_condition = "Between" THEN BetweenFilter(t, col, w.amount1, w.amount2)
         ELSE t
    ELSE t

Filter(t, w) == AmountFilter(DateFilter(t, w), w)

ColumnSum(t, col) == SumSeq([r \in 1..Len(t) |-> t[r][col]])

\* Faulty variant of Metrics: the net flow taken as debit - credit.
Metrics_DebitMinusCredit(shown) ==
    LET c == ColumnSum(shown, "credit_amount")
        d == ColumnSum(shown, "debit_amount")
    IN  [total_credit |-> c, total_debit |-> d, net_flow |-> d - c]

\* The key metrics of the rows displayed.
Metrics(shown) ==
    LET c == ColumnSum(shown, "credit_amount")
        d == ColumnSum(shown, "debit_amount")
    IN  [total_credit |-> c, total_debit |-> d, net_flow |-> c - d]

\* What the page shows when the script stops before the dashboard.
NothingShown ==
    /\ widgets' = DefaultWidgets(<<>>)
    /\ filtered_df' = <<>>
    /\ total_credit' = 0
    /\ total_debit' = 0
    /\ net_flow' = 0

\* One run of the script, top to bottom, in the running session: with the
\* widgets' defaults when fresh, with the widget values w0 otherwise.
RunScript(fresh, w0) ==
    LET res == CachedLoad IN
    /\ ranBody' = ~cache.full
    /\ IF res.raised
       THEN \* an exception out of load_data ends the run
            /\ pc' = "crashed"
            /\ UNCHANGED <<cache, df, diag>>
            /\ NothingShown
       ELSE /\ cache' = [full |-> TRUE, table |-> res.table, diag |-> res.diag]
            /\ df' = res.table
            /\ diag' = res.diag
            /\ IF res.table = <<>>
               THEN \* df.empty: the warning, and nothing else
                    /\ pc' = "nodata"
                    /\ NothingShown
               ELSE LET w == IF fresh THEN DefaultWidgets(res.table) ELSE w0
                        shown == Filter(res.table, w)
                        m == Metrics(shown)
                    IN  /\ widgets' = w
                        /\ filtered_df' = shown
                        /\ total_credit' = m.total_credit
                        /\ total_debit' = m.total_debit
                        /\ net_flow' = m.net_flow
                        \* with no dated row the date widgets are handed NaT:
                        \* the run either stops there or goes on with NaT bounds
                        /\ \/ pc' = "shown"
                           \/ Dated(res.table) = {} /\ pc' = "failed"

Init2 ==
    /\ cache = [full |-> FALSE, table |-> <<>>, diag |-> FALSE]
    /\ session = 1
    /\ changedIn = 0
    /\ ranBody = FALSE
    /\ pc = "idle"
    /\ df = <<>>
    /\ diag = FALSE
    /\ widgets = DefaultWidgets(<<>>)
    /\ filtered_df = <<>>
    /\ total_credit = 0
    /\ total_debit = 0
    /\ net_flow = 0

\* The first page load: the script runs with the widgets' defaults.
Open ==
    /\ pc = "idle"
    /\ RunScript(TRUE, widgets)
    /\ UNCHANGED <<store, session, changedIn, vars1>>

\* A page load in a new browser session: fresh widgets, the same cache.
NewSession ==
    /\ pc # "idle"
    /\ session < MaxSessions
    /\ session' = session + 1
    /\ RunScript(TRUE, widgets)
    /\ UNCHANGED <<store, changedIn, vars1>>

\* A rerun of the script in the running session, the widgets as they are.
Rerun ==
    /\ pc # "idle"
    /\ RunScript(FALSE, widgets)
    /\ UNCHANGED <<store, session, changedIn, vars1>>

\* Another program writes, replaces, creates or deletes transactions.db.
StoreChange ==
    /\ \E s \in LoadStores :
        /\ s # store
        /\ store' = s
    /\ changedIn' = session
    /\ UNCHANGED <<cache, session, ranBody, pc, df, diag, widgets, filtered_df,
                   total_credit, total_debit, net_flow, vars1>>

\* A widget change reruns the script with the new value.
Interact(w) ==
    /\ pc = "shown"
    /\ RunScript(FALSE, w)
    /\ UNCHANGED <<store, session, changedIn, vars1>>

\* st.sidebar.date_input("From", ...): a day of min_date .. max_date.
SetStartDate == \E d \in min_date(df)..max_date(df) : Interact([widgets EXCEPT !.start_date = d])

\* st.sidebar.date_input("To", ...)
SetEndDate == \E d \in min_date(df)..max_date(df) : Interact([widgets EXCEPT !.end_date = d])

\* st.sidebar.selectbox("Transaction Type", ...)
SetAmountType == \E t \in AmountTypes : Interact([widgets EXCEPT !.amount_type = t])

\* st.sidebar.selectbox("Condition", ...): the amount inputs the new
\* condition does not draw are gone, those it draws anew hold their defaults;
\* "Greater Than" and "Less Than" share the input "Amount".
SetCondition ==
    \E c \in Conditions :
        LET old == widgets.filter_condition
            keep == {old, c} \subseteq {"Greater Than", "Less Than"}
        IN  Interact([widgets EXCEPT !.filter_condition = c,
                                     !.amount1 = IF keep THEN @ ELSE 0,
                                     !.amount2 = IF c = "Between" THEN ToAmountDefault ELSE 0])

\* st.sidebar.number_input("Amount" / "From Amount", min_value=0.0)
SetAmount1 ==
    /\ widgets.filter_condition # "Any Amount"
    /\ \E a \in AmountInputs : Interact([widgets EXCEPT !.amount1 = a])

\* st.sidebar.number_input("To Amount", min_value=0.0, value=1000.0)
SetAmount2 ==
    /\ widgets.filter_condition = "Between"
    /\ \E a \in AmountInputs : Interact([widgets EXCEPT !.amount2 = a])

----------------------------------------------------------------------------
(* Claims about Day 2/view_transactions.py *)

\* The amount of a row the transaction type selects.
SelectedAmount(row) ==
    IF widgets.amount_type = "Credit" THEN row.credit_amount ELSE row.debit_amount
\* The row's calendar day lies in [date_from, date_to].
DayInRange(row) ==
    /\ row.transaction_date # NaT
    /\ widgets.start_date # NaT /\ widgets.end_date # NaT
    /\ widgets.start_date <= DateOf(row.transaction_date)
    /\ DateOf(row.transaction_date) <= widgets.end_date
AmountFiltering ==
    widgets.amount_type \in {"Credit", "Debit"} /\ widgets.filter_condition # "Any Amount"
LowBound == IF widgets.amount1 <= widgets.amount2 THEN widgets.amount1 ELSE widgets.amount2
HighBound == IF widgets.amount1 <= widgets.amount2 THEN widgets.amount2 ELSE widgets.amount1
\* The indices of the rows of t that satisfy P, as a table: a description of
\* the result by its rows, independent of the order of the filter's steps.
RowsWhere(t, P(_)) == SelectRows(t, {r \in 1..Len(t) : P(t[r])}, 1)

\* C1 as stated: the filtered table is the input rows, in order, whose day is
\* in [date_from, date_to] and, when a type and a condition are chosen, whose
\* amount is > bound1, < bound1, or in [bound1, bound2] with the bounds as
\* entered.
C1_FilterAsStated ==
    (pc = "shown") =>
        filtered_df = RowsWhere(df, LAMBDA row :
            /\ DayInRange(row)
            /\ (AmountFiltering =>
                 (CASE widgets.filter_condition = "Greater Than" -> (SelectedAmount(row) > widgets.amount1)
                    [] widgets.filter_condition = "Less Than" -> (SelectedAmount(row) < widgets.amount1)
                    [] OTHER -> (widgets.amount1 <= SelectedAmount(row)
                                 /\ SelectedAmount(row) <= widgets.amount2))))

\* C1 amended: as C1, with Between keeping the amounts in
\* [min(bound1, bound2), max(bound1, bound2)].
C1_FilterWithOrderedBounds ==
    (pc = "shown") =>
        filtered_df = RowsWhere(df, LAMBDA row :
            /\ DayInRange(row)
            /\ (AmountFiltering =>
                 (CASE widgets.filter_condition = "Greater Than" -> (SelectedAmount(row) > widgets.amount1)
                    [] widgets.filter_condition = "Less Than" -> (SelectedAmount(row) < widgets.amount1)
                    [] OTHER -> (LowBound <= SelectedAmount(row)
                                 /\ SelectedAmount(row) <= HighBound))))

\* C1 witness: a Credit / Greater Than filter over a narrowed date range that
\* keeps one of two rows.
C1_Witness ==
    /\ pc = "shown"
    /\ widgets.amount_type = "Credit"
    /\ widgets.filter_condition = "Greater Than"
    /\ widgets.amount1 = 1000
    /\ Len(df) = 2
    /\ Len(filtered_df) = 1
    /\ filtered_df[1].credit_amount = 2000

\* C2: the metrics are the column sums of the filtered rows, net_flow is
\* total_credit - total_debit, and all three are 0 when no row is kept.
C2_Metrics ==
    (pc = "shown") =>
        /\ total_credit = SumOver(1..Len(filtered_df), [r \in 1..Len(filtered_df) |-> filtered_df[r].credit_amount])
        /\ total_debit = SumOver(1..Len(filtered_df), [r \in 1..Len(filtered_df) |-> filtered_df[r].debit_amount])
        /\ net_flow = total_credit - total_debit
        /\ (filtered_df = <<>> => (total_credit = 0 /\ total_debit = 0 /\ net_flow = 0))

\* C2 witness: a filter that keeps the debit row of a two-row table.
C2_Witness ==
    /\ pc = "shown"
    /\ Len(df) = 2
    /\ Len(filtered_df) = 1
    /\ total_debit = 1000
    /\ total_credit = 0
    /\ net_flow = -1000

\* C7: for a loaded table with a dated row, with condition Any and the date
\* range at its defaults (earliest and latest row date), the filtered table
\* is the loaded table: the same rows in the same order.
C7_IdentityLaw ==
    (/\ pc = "shown"
     /\ Dated(df) # {}
     /\ widgets.filter_condition = "Any Amount"
     /\ widgets.start_date = min_date(df)
     /\ widgets.end_date = max_date(df)) => filtered_df = df

\* The identity law on the tables whose rows all have a date.
C7_IdentityWhenAllDated == (\A r \in 1..Len(df) : df[r].transaction_date # NaT) => C7_IdentityLaw

\* C8: a Between filter gives the same table and the same metrics with the
\* two bounds exchanged, and the table is the rows of the date range whose
\* selected amount lies between the smaller and the larger bound.
C8_SwapLaw ==
    (pc = "shown" /\ AmountFiltering /\ widgets.filter_condition = "Between") =>
        LET exchanged == [widgets EXCEPT !.amount1 = widgets.amount2, !.amount2 = widgets.amount1] IN
        /\ filtered_df = Filter(df, exchanged)
        /\ [total_credit |-> total_credit, total_debit |-> total_debit, net_flow |-> net_flow]
             = Metrics(Filter(df, exchanged))
        /\ filtered_df = RowsWhere(df, LAMBDA row :
              DayInRange(row) /\ LowBound <= SelectedAmount(row) /\ SelectedAmount(row) <= HighBound)

\* C8 witness: Debit / Between with the bounds entered in reverse, keeping
\* one of two rows.
C8_Witness ==
    /\ pc = "shown"
    /\ widgets.amount_type = "Debit"
    /\ widgets.filter_condition = "Between"
    /\ widgets.amount1 = 2000
    /\ widgets.amount2 = 1000
    /\ Len(df) = 2
    /\ Len(filtered_df) = 1
    /\ filtered_df[1].debit_amount = 1000

\* C5: after a script run made in a session later than the store's last
\* change, the table the run got from load_data is the table the store
\* holds now, not one cached by an earlier session.
C5_NoStaleLoadInLaterSession ==
    (pc # "idle" /\ session > changedIn) => df = load_data(store).table

\* The cell of the loaded table a cell of the store becomes.
CoercedAmount(x) == IF x \in {NullCell, BadText} THEN 0 ELSE x
LoadedFrom(raw, row) ==
    /\ row.debit_amount = CoercedAmount(raw.debit_amount)
    /\ row.credit_amount = CoercedAmount(raw.credit_amount)
    /\ row.balance = CoercedAmount(raw.balance)
    /\ row.description = raw.description
    /\ row.transaction_date = (IF raw.transaction_date = NullCell THEN NaT ELSE raw.transaction_date)
StoreReadable == store.state = "ok" /\ \A i \in 1..Len(store.rows) : store.rows[i].transaction_date # BadText

\* C6: in every script run that executes the body of load_data (the step
\* that fills the cache) no exception reaches the script; an absent store
\* gives an empty table and no diagnostic, a failing connect, query or date
\* conversion gives an empty table and the diagnostic, an empty table sends
\* the script to the no-data branch with no filter result and no metric, and
\* on success each row is a store row whose amounts and balance are 0 where
\* the store's cell is not a number.
C6_LoadNeverRaises ==
    [][(~cache.full /\ pc' # pc) =>
        /\ pc' # "crashed"
        /\ cache'.full
        /\ (store.state = "absent" => (df' = <<>> /\ ~diag'))
        /\ ((store.state # "absent" /\ ~StoreReadable) => (df' = <<>> /\ diag'))
        /\ (df' = <<>> => (/\ pc' = "nodata"
                           /\ filtered_df' = <<>>
                           /\ total_credit' = 0 /\ total_debit' = 0 /\ net_flow' = 0))
        /\ (StoreReadable =>
              /\ ~diag'
              /\ Len(df') = Len(store.rows)
              /\ \A i \in 1..Len(store.rows) : \E r \in 1..Len(df') : LoadedFrom(store.rows[i], df'[r])
              /\ \A r \in 1..Len(df') : \E i \in 1..Len(store.rows) : LoadedFrom(store.rows[i], df'[r]))
      ]_vars

\* C6 witness: a run that executed the body on a store whose amounts are not
\* numbers and shows the row with zeros.
C6_Witness ==
    /\ ranBody
    /\ pc = "shown"
    /\ store.state = "ok"
    /\ Len(store.rows) = 1
    /\ store.rows[1].debit_amount = BadText
    /\ Len(df) = 1
    /\ df[1].debit_amount = 0
    /\ df[1].credit_amount = 0
    /\ df[1].balance = 0

----------------------------------------------------------------------------
(* Specifications *)

\* Day 1: the marks dashboard.
InitAgg == Init1 /\ store = AbsentStore /\ Init2
NextAgg == Upload \/ Calculate \/ RemoveFile
SpecAgg == InitAgg /\ [][NextAgg]_vars

\* Day 2: one session filtering the table of a store that does not change.
InitView == Init1 /\ store \in ViewStores /\ Init2
NextView ==
    \/ Open
    \/ SetStartDate
    \/ SetEndDate
    \/ SetAmountType
    \/ SetCondition
    \/ SetAmount1
    \/ SetAmount2
SpecView == InitView /\ [][NextView]_vars

\* Day 2: the store changing under the sessions of one server process.
InitLoad == Init1 /\ store \in LoadStores /\ Init2
NextLoad == Open \/ NewSession \/ Rerun \/ StoreChange
SpecLoad == InitLoad /\ [][NextLoad]_vars

====
